---- MODULE Spec2Model ----
(***************************************************************************)
(* The Grid Animator of interactive-grid-background: the pointer-to-cell   *)
(* mapping, the neighbor selection and the per-cell highlight / fade       *)
(* lifecycle driven by one-shot timers, for the three variants of the      *)
(* component found in the repository:                                      *)
(*   "earliest" : src/unnamed/part_000, lines 1-152                        *)
(*   "hover"    : src/unnamed/part_000, lines 154-318                      *)
(*   "final"    : src/src/components/ui/interactive-grid-pattern.tsx       *)
(*                                                                         *)
(* Time is abstracted: a pending timer may fire at any later step.  Every  *)
(* state update re-renders the component; in the final variant the effect  *)
(* of lines 46-55 depends on [squaresState], so React runs the cleanup of  *)
(* the previous render (closed over the previous squaresState) on every    *)
(* such re-render, and once more on unmount.  That cleanup is part of the  *)
(* action of the update that causes it.                                    *)
(***************************************************************************)
EXTENDS Integers, Sequences, FiniteSets, TLC

(* ------------------------------ bounds --------------------------------- *)
\* width and height props (cell size in pixels; the code's default is 50)
Width == 10
Height == 10
\* the final variant runs on every grid squares = [horizontal, vertical] with
\* horizontal * vertical <= MaxCells (3 x 2 has cells with 5 neighbors, more
\* than the final variant ever selects)
MaxCells == 6
\* the earliest and the hover variant run on grids of at most MaxCellsSimple
\* cells (2 x 2 has cells with 3 neighbors, more than they may select)
MaxCellsSimple == 4
\* the geometry specification runs on every grid up to MaxDim x MaxDim
MaxDim == 3

(* ------------------------ program constants ---------------------------- *)
\* slice(0, Math.floor(Math.random() * FinalKSpan) + FinalKBase)
FinalKSpan == 2
FinalKBase == 4
\* slice(0, Math.floor(Math.random() * HoverKSpan) + HoverKBase)
HoverKSpan == 6
HoverKBase == 2
\* slice(0, Math.floor(Math.random() * EarliestKSpan) + EarliestKBase)
EarliestKSpan == 3
EarliestKBase == 0
\* useIsMobile(maxWidth = 1024)
DefaultMaxWidth == 1024

\* SquareState.timeoutId is optional: NoTimeout is the missing property.
NoTimeout == 0
\* A handle whose timer has fired or was cleared.  The code only tests a
\* handle for truthiness and passes it to clearTimeout, which does nothing
\* for such a handle, so all of them are represented by one value.
Stale == -1

VARIABLES
    variant,        \* which of the three components is mounted
    horizontal,     \* squares[0]
    vertical,       \* squares[1]
    squaresState,   \* Record<number, SquareState>: a function on its keys
    lastSquareRef,  \* lastSquareRef.current / lastHoveredSquareRef.current
    timers,         \* the pending timers: [index, n, kind]
    mounted,        \* the component is mounted
    innerWidth,     \* window.innerWidth
    isMobile,       \* the state of useIsMobile
    listening,      \* the resize listener of useIsMobile is attached
    last,           \* observation: what the last step did
    probe           \* observation: the last geometry evaluation

vars == <<variant, horizontal, vertical, squaresState, lastSquareRef, timers,
          mounted, innerWidth, isMobile, listening, last, probe>>

Variants == {"earliest", "hover", "final"}

\* lastSquareRef.current = null
Null == -1

(* ----------------------------- geometry -------------------------------- *)

Min(a, b) == IF a <= b THEN a ELSE b

\* the pairs (i, j) in the order the two nested loops visit them
LoopOffsets ==
    << <<-1, -1>>, <<-1, 0>>, <<-1, 1>>,
       <<0, -1>>,  <<0, 0>>,  <<0, 1>>,
       <<1, -1>>,  <<1, 0>>,  <<1, 1>> >>

\* a plausible slip: the pointer's own cell is not skipped
KeepOffset_NoSkip(o, row, col, h, v) ==
    /\ row + o[1] >= 0 /\ row + o[1] < v
    /\ col + o[2] >= 0 /\ col + o[2] < h

\* a plausible slip: each bound is tested against the other dimension
KeepOffset_SwappedBounds(o, row, col, h, v) ==
    /\ ~(o[1] = 0 /\ o[2] = 0)
    /\ row + o[1] >= 0 /\ row + o[1] < h
    /\ col + o[2] >= 0 /\ col + o[2] < v

\* the loop body's two tests: `continue` on (0,0), then the bounds test
KeepOffset(o, row, col, h, v) ==
    /\ ~(o[1] = 0 /\ o[2] = 0)
    /\ row + o[1] >= 0 /\ row + o[1] < v
    /\ col + o[2] >= 0 /\ col + o[2] < h

\* getNeighbors(x, y): the list of pushed indices, in push order
getNeighbors(x, y, h, v) ==
    LET col == x \div Width
        row == y \div Height
        kept == SelectSeq(LoopOffsets, LAMBDA o : KeepOffset(o, row, col, h, v))
    IN  [n \in 1..Len(kept) |-> (row + kept[n][1]) * h + (col + kept[n][2])]

\* a plausible slip: the row is scaled by the number of rows
currentSquare_ByVertical(x, y, h, v) ==
    (y \div Height) * v + (x \div Width)

\* Math.floor(y / height) * horizontal + Math.floor(x / width)
currentSquare(x, y, h, v) ==
    (y \div Height) * h + (x \div Width)

Range(s) == {s[n] : n \in 1..Len(s)}

\* the x attribute of the rect drawn for index: (index % horizontal) * width
rectX(index, h) == (index % h) * Width

\* a plausible slip: the row is taken from the division by the number of rows
rectY_ByVertical(index, h, v) == (index \div v) * Height

\* the y attribute: Math.floor(index / horizontal) * height
rectY(index, h, v) == (index \div h) * Height

(* ------------------------------ timers --------------------------------- *)

\* A pending timer is [index, n, kind]: the cell its callback closes over,
\* the handle setTimeout returned (n, unique among the pending timers of the
\* cell) and which callback it runs ("dwell" or "removal").
TimersOf(tm, i) == {t \in tm : t.index = i}

\* the handle setTimeout returns: one no pending timer of the cell has
FreshHandle(tm, i) ==
    LET used == {t.n : t \in TimersOf(tm, i)}
    IN  CHOOSE n \in 1..(Cardinality(used) + 1) :
            n \notin used /\ \A m \in 1..(n - 1) : m \in used

\* the pending timers that the handles stored in the records of s name
\* (what `if (square.timeoutId) clearTimeout(square.timeoutId)` cancels
\* when run over these records)
Referenced(s, tm, keys) ==
    {t \in tm : t.index \in keys /\ t.index \in DOMAIN s
                /\ s[t.index].timeoutId # NoTimeout
                /\ s[t.index].timeoutId = t.n}

\* the records whose handle names no pending timer hold a stale handle
Settle(s, tm) ==
    [i \in DOMAIN s |->
        IF s[i].timeoutId >= 1
           /\ ~\E t \in tm : t.index = i /\ t.n = s[i].timeoutId
        THEN [s[i] EXCEPT !.timeoutId = Stale]
        ELSE s[i]]

\* a plausible slip: the hover variant never consults its reference
HasRef_FinalOnly(var) == var = "final"

\* the variants that keep a last-hovered reference
HasRef(var) == var \in {"hover", "final"}
\* a plausible slip: every variant is taken to schedule a removal
HasRemoval_All(var) == TRUE

\* the variant whose timers schedule a removal
HasRemoval(var) == var = "final"

(* ----------------------------- updaters -------------------------------- *)
\* An updater returns [sq, kept, new, cleared]: the next squaresState, the
\* timers that were pending before and still are, the timers it scheduled
\* and the pending timers it cleared.

\* a plausible slip: scheduling without clearing the previous timer
MoveCleared_None(prev, tm, chosen) == {}

\* handleMouseMove's updater, the clearTimeout of the loop
MoveCleared(prev, tm, chosen) == Referenced(prev, tm, chosen)

\* a plausible slip: the spread order of the returned object is reversed, so
\* a record already in the mapping wins over its update
MoveUpdate_KeepsOld(prev, tm, chosen) ==
    LET cleared == MoveCleared(prev, tm, chosen)
        kept == tm \ cleared
    IN  [sq |-> [i \in DOMAIN prev \cup chosen |->
                    IF i \in DOMAIN prev
                    THEN prev[i]
                    ELSE [state |-> "highlighted",
                          timeoutId |-> FreshHandle(kept, i)]],
         kept |-> kept,
         new |-> {[index |-> i, n |-> FreshHandle(kept, i), kind |-> "dwell"]
                    : i \in chosen},
         cleared |-> cleared]

\* handleMouseMove's updater
MoveUpdate(prev, tm, chosen) ==
    LET cleared == MoveCleared(prev, tm, chosen)
        kept == tm \ cleared
    IN  [sq |-> [i \in DOMAIN prev \cup chosen |->
                    IF i \in chosen
                    THEN [state |-> "highlighted",
                          timeoutId |-> FreshHandle(kept, i)]
                    ELSE prev[i]],
         kept |-> kept,
         new |-> {[index |-> i, n |-> FreshHandle(kept, i), kind |-> "dwell"]
                    : i \in chosen},
         cleared |-> cleared]

\* a plausible slip: the dwell callback deletes the cell instead of starting
\* its fade
DwellUpdate_RemovesAtOnce(var, cur, tm, i) ==
    IF i \in DOMAIN cur /\ cur[i].state = "highlighted"
    THEN [sq |-> [j \in DOMAIN cur \ {i} |-> cur[j]],
          kept |-> tm, new |-> {}, cleared |-> {}]
    ELSE [sq |-> cur, kept |-> tm, new |-> {}, cleared |-> {}]

\* the callback of the dwell timer of cell i; tm: the other pending timers
DwellUpdate(var, cur, tm, i) ==
    IF HasRemoval(var)
    THEN IF i \in DOMAIN cur /\ cur[i].state = "highlighted"
         THEN [sq |-> [cur EXCEPT ![i] = [state |-> "fading",
                                          timeoutId |-> FreshHandle(tm, i)]],
               kept |-> tm,
               new |-> {[index |-> i, n |-> FreshHandle(tm, i),
                         kind |-> "removal"]},
               cleared |-> {}]
         ELSE [sq |-> cur, kept |-> tm, new |-> {}, cleared |-> {}]
    ELSE IF i \in DOMAIN cur
         THEN [sq |-> [cur EXCEPT ![i] = [state |-> "fading",
                                          timeoutId |-> NoTimeout]],
               kept |-> tm, new |-> {}, cleared |-> {}]
         ELSE [sq |-> cur, kept |-> tm, new |-> {}, cleared |-> {}]

\* a plausible slip: the test of the removal callback compares with the
\* phase the cell had when the timer was scheduled
RemovalUpdate_TestsHighlighted(cur, tm, i) ==
    IF i \in DOMAIN cur /\ cur[i].state = "highlighted"
    THEN [sq |-> [j \in DOMAIN cur \ {i} |-> cur[j]],
          kept |-> tm, new |-> {}, cleared |-> {}]
    ELSE [sq |-> cur, kept |-> tm, new |-> {}, cleared |-> {}]

\* the callback of the removal timer of cell i (final variant)
RemovalUpdate(cur, tm, i) ==
    IF i \in DOMAIN cur /\ cur[i].state = "fading"
    THEN [sq |-> [j \in DOMAIN cur \ {i} |-> cur[j]],
          kept |-> tm, new |-> {}, cleared |-> {}]
    ELSE [sq |-> cur, kept |-> tm, new |-> {}, cleared |-> {}]

\* a plausible slip: the clearTimeout runs only for the cells that are
\* already Fading, so a Highlighted cell keeps its dwell timer
LeaveCleared_OnlyFading(prev, tm) ==
    Referenced(prev, tm, {i \in DOMAIN prev : prev[i].state = "fading"})

\* handleMouseLeave's updater, the clearTimeout of the loop
LeaveCleared(prev, tm) == Referenced(prev, tm, DOMAIN prev)

\* handleMouseLeave's updater
LeaveUpdate(var, prev, tm) ==
    LET cleared == LeaveCleared(prev, tm)
        kept == tm \ cleared
        hl == {i \in DOMAIN prev : prev[i].state = "highlighted"}
    IN  IF HasRemoval(var)
        THEN [sq |-> [i \in DOMAIN prev |->
                        IF i \in hl
                        THEN [state |-> "fading",
                              timeoutId |-> FreshHandle(kept, i)]
                        ELSE prev[i]],
              kept |-> kept,
              new |-> {[index |-> i, n |-> FreshHandle(kept, i),
                        kind |-> "removal"] : i \in hl},
              cleared |-> cleared]
        ELSE [sq |-> [i \in DOMAIN prev |->
                        IF i \in hl
                        THEN [state |-> "fading", timeoutId |-> NoTimeout]
                        ELSE prev[i]],
              kept |-> kept, new |-> {}, cleared |-> cleared]

\* a plausible slip: the cleanup clears nothing
EffectCleanup_None(var, prev, tm) == {}

\* The cleanup of the effect on [squaresState] (final variant only): the
\* pending timers named by the records of the squaresState it closed over.
EffectCleanup(var, prev, tm) ==
    IF var = "final" THEN Referenced(prev, tm, DOMAIN prev) ELSE {}

(* ------------------------------ actions -------------------------------- *)

\* the grids of the state machine: at most MaxCells cells, not taller than
\* wide (the geometry specification has the tall ones)
Grids(var) ==
    LET cells == IF var = "final" THEN MaxCells ELSE MaxCellsSimple
    IN  {g \in (1..cells) \X (1..cells) : g[1] * g[2] <= cells /\ g[2] <= g[1]}

\* the pointer positions tried in a grid of h x v cells: the top-left and the
\* bottom-right pixel of every cell
Pointers(h, v) ==
    {<<c * Width + d * (Width - 1), r * Height + d * (Height - 1)>> :
        c \in 0..(h - 1), r \in 0..(v - 1), d \in {0, 1}}

\* the viewport widths tried: just below the threshold and at it
InnerWidths == {DefaultMaxWidth - 1, DefaultMaxWidth}

NoProbe == [x |-> -1, y |-> -1, index |-> -1, neighbors |-> <<>>]

\* what a step did: the handler or callback that ran, the cells a pointer-move
\* selected (randomNeighbors), the pending timers (cell and kind) its
\* clearTimeout calls cancelled, and the kinds of those the effect cleanup
\* cancelled
Observed(op, sel, cleared, swept) ==
    [op |-> op,
     sel |-> sel,
     cleared |-> {<<t.index, t.kind>> : t \in cleared},
     swept |-> {t.kind : t \in swept}]

\* useState({}), useRef(null), useState(false)
InitComponent ==
    /\ squaresState = [i \in {} |-> [state |-> "fading", timeoutId |-> NoTimeout]]
    /\ lastSquareRef = Null
    /\ timers = {}
    /\ mounted = TRUE
    /\ isMobile = FALSE
    /\ listening = FALSE
    /\ last = Observed("init", {}, {}, {})
    /\ probe = NoProbe

Init ==
    /\ variant \in Variants
    /\ \E g \in Grids(variant) : horizontal = g[1] /\ vertical = g[2]
    /\ innerWidth \in (IF variant = "hover" THEN InnerWidths ELSE {DefaultMaxWidth})
    /\ InitComponent

\* a plausible slip: Math.random() taken to range over [0, 1]
SliceCounts_Inclusive(var) ==
    CASE var = "final" -> {FinalKBase + j : j \in 0..FinalKSpan}
      [] var = "hover" -> {HoverKBase + j : j \in 0..HoverKSpan}
      [] OTHER -> {EarliestKBase + j : j \in 0..EarliestKSpan}

\* Math.floor(Math.random() * span) + base, Math.random() in [0, 1)
SliceCounts(var) ==
    CASE var = "final" -> {FinalKBase + j : j \in 0..(FinalKSpan - 1)}
      [] var = "hover" -> {HoverKBase + j : j \in 0..(HoverKSpan - 1)}
      [] OTHER -> {EarliestKBase + j : j \in 0..(EarliestKSpan - 1)}

\* neighbors.sort(() => 0.5 - Math.random()).slice(0, k): the entries at any
\* min(k, length) positions of the list, for any k the variant can draw
RandomNeighbors(var, neighbors) ==
    UNION {{{neighbors[p] : p \in P} :
              P \in {Q \in SUBSET (1..Len(neighbors)) :
                       Cardinality(Q) = Min(k, Len(neighbors))}} :
           k \in SliceCounts(var)}

\* onMouseMove={isMobile ? undefined : handleMouseMove} (hover variant)
HandlersAttached == mounted /\ (variant = "hover" => ~isMobile)

\* The outcome of a state update and the re-render it causes: u is the
\* updater's result, prev the squaresState of the render before it.
Committed(prev, u) ==
    LET swept == EffectCleanup(variant, prev, u.kept)
        tm == (u.kept \ swept) \cup u.new
    IN  [sq |-> Settle(u.sq, tm), timers |-> tm, swept |-> swept]

\* A state update and the re-render it causes.
Commit(op, sel, prev, u) ==
    LET c == Committed(prev, u)
    IN  /\ timers' = c.timers
        /\ squaresState' = c.sq
        /\ last' = Observed(op, sel, u.cleared, c.swept)

\* handleMouseMove, pointer at (x, y) relative to the grid's top-left corner
MouseMove(x, y) ==
    /\ HandlersAttached
    /\ LET index == currentSquare(x, y, horizontal, vertical)
       IN  IF HasRef(variant) /\ index = lastSquareRef
           THEN /\ last' = Observed("moveSame", {}, {}, {})
                /\ UNCHANGED <<squaresState, lastSquareRef, timers>>
           ELSE /\ lastSquareRef' = IF HasRef(variant) THEN index ELSE lastSquareRef
                /\ \E chosen \in RandomNeighbors(variant,
                            getNeighbors(x, y, horizontal, vertical)) :
                      Commit("move", chosen, squaresState,
                             MoveUpdate(squaresState, timers, chosen))
    /\ UNCHANGED <<variant, horizontal, vertical, mounted, innerWidth, isMobile,
                   listening, probe>>

\* handleMouseLeave
MouseLeave ==
    /\ HandlersAttached
    /\ Commit("leave", {}, squaresState, LeaveUpdate(variant, squaresState, timers))
    /\ lastSquareRef' = Null
    /\ UNCHANGED <<variant, horizontal, vertical, mounted, innerWidth, isMobile,
                   listening, probe>>

\* the updater that the callback of the pending timer t passes to
\* setSquaresState, applied to cur
TimerUpdate(cur, tm, t) ==
    IF t.kind = "dwell"
    THEN DwellUpdate(variant, cur, tm \ {t}, t.index)
    ELSE RemovalUpdate(cur, tm \ {t}, t.index)

\* a pending timer fires and its callback runs.  After unmount React drops
\* the update: only the timer is gone.
TimerFire(t) ==
    /\ t \in timers
    /\ IF mounted
       THEN Commit(t.kind, {}, squaresState,
                   TimerUpdate(squaresState, timers, t))
       ELSE /\ timers' = timers \ {t}
            /\ last' = Observed("dropped", {}, {}, {})
            /\ UNCHANGED squaresState
    /\ UNCHANGED <<variant, horizontal, vertical, lastSquareRef, mounted,
                   innerWidth, isMobile, listening, probe>>

\* the component is unmounted: the effect cleanups run one last time
Unmount ==
    /\ mounted
    /\ mounted' = FALSE
    /\ listening' = FALSE
    /\ LET swept == EffectCleanup(variant, squaresState, timers)
       IN  /\ timers' = timers \ swept
           /\ squaresState' = Settle(squaresState, timers \ swept)
           /\ last' = Observed("unmount", {}, {}, swept)
    /\ UNCHANGED <<variant, horizontal, vertical, lastSquareRef, innerWidth,
                   isMobile, probe>>

\* useIsMobile's effect after mount: checkIsMobile() and addEventListener
MobileEffect ==
    /\ variant = "hover" /\ mounted /\ ~listening
    /\ isMobile' = (innerWidth < DefaultMaxWidth)
    /\ listening' = TRUE
    /\ last' = Observed("effect", {}, {}, {})
    /\ UNCHANGED <<variant, horizontal, vertical, squaresState, lastSquareRef,
                   timers, mounted, innerWidth, probe>>

\* the window is resized to width w (only the hover variant reads it)
Resize(w) ==
    /\ variant = "hover" /\ mounted /\ w # innerWidth
    /\ innerWidth' = w
    /\ isMobile' = IF listening THEN (w < DefaultMaxWidth) ELSE isMobile
    /\ last' = Observed("resize", {}, {}, {})
    /\ UNCHANGED <<variant, horizontal, vertical, squaresState, lastSquareRef,
                   timers, mounted, listening, probe>>

Next ==
    \/ \E p \in Pointers(horizontal, vertical) : MouseMove(p[1], p[2])
    \/ MouseLeave
    \/ \E t \in timers : TimerFire(t)
    \/ Unmount
    \/ MobileEffect
    \/ \E w \in InnerWidths : Resize(w)

Spec == Init /\ [][Next]_vars

(* ------------------------- geometry specification ---------------------- *)

\* the pointer-move handler's index and getNeighbors' list for (x, y)
Probe(x, y) ==
    /\ probe' = [x |-> x, y |-> y,
                 index |-> currentSquare(x, y, horizontal, vertical),
                 neighbors |-> getNeighbors(x, y, horizontal, vertical)]
    /\ UNCHANGED <<variant, horizontal, vertical, squaresState, lastSquareRef,
                   timers, mounted, innerWidth, isMobile, listening, last>>

InitGeom ==
    /\ variant = "final"
    /\ horizontal \in 1..MaxDim
    /\ vertical \in 1..MaxDim
    /\ innerWidth = DefaultMaxWidth
    /\ InitComponent

NextGeom ==
    \E x \in 0..(Width * horizontal - 1), y \in 0..(Height * vertical - 1) :
        probe = NoProbe /\ Probe(x, y)

SpecGeom == InitGeom /\ [][NextGeom]_vars

(* --------------------- one pointer-move, then no input ----------------- *)

\* the centre pixel of every cell
Centres(h, v) ==
    {<<c * Width + Width \div 2, r * Height + Height \div 2>> :
        c \in 0..(h - 1), r \in 0..(v - 1)}

\* one pointer-move into the freshly mounted component; after it the only
\* steps are the firings of the timers it leaves pending
NextOnce ==
    \/ \E p \in Centres(horizontal, vertical) :
          last.op = "init" /\ MouseMove(p[1], p[2])
    \/ \E t \in timers : TimerFire(t)

\* a pending timer of a running page fires once its delay has elapsed
TimersFire == WF_vars(\E t \in timers : TimerFire(t))

SpecOnce == Init /\ [][NextOnce]_vars /\ TimersFire

(* ------------------------- grids with interior cells ------------------- *)

\* every variant on every grid up to MaxDim x MaxDim (3 x 3 has a cell with
\* all 8 neighbors, more than any variant selects)
InitSelect ==
    /\ variant \in Variants
    /\ horizontal \in 1..MaxDim
    /\ vertical \in 1..MaxDim
    /\ innerWidth = DefaultMaxWidth
    /\ InitComponent

\* pointer-moves, pointer-leaves and timer firings; on the grids of more than
\* MaxCellsSimple cells the pointer moves once, into the freshly mounted
\* component
NextSelect ==
    \/ \E p \in Pointers(horizontal, vertical) :
          /\ (horizontal * vertical <= MaxCellsSimple \/ last.op = "init")
          /\ MouseMove(p[1], p[2])
    \/ MouseLeave
    \/ \E t \in timers : TimerFire(t)

SpecSelect == InitSelect /\ [][NextSelect]_vars

(* ------------------------ any viewport width --------------------------- *)

\* every variant mounted in a window of either width, on the grids of at
\* most MaxCellsSimple cells
InitNarrow ==
    /\ variant \in Variants
    /\ \E g \in Grids("hover") : horizontal = g[1] /\ vertical = g[2]
    /\ innerWidth \in InnerWidths
    /\ InitComponent

SpecNarrow == InitNarrow /\ [][Next]_vars

(* ----------------------------- properties ------------------------------ *)

Cells == 0..(horizontal * vertical - 1)

Phase(i) == IF i \in DOMAIN squaresState THEN squaresState[i].state ELSE "idle"

Pending(i, kind) == {t \in timers : t.index = i /\ t.kind = kind}

\* C1 (final variant): a Highlighted cell keeps its dwell timer pending until
\* that timer fires, whatever happens to other cells, so that it always
\* reaches Fading: in every state of the mounted component each Highlighted
\* cell has a pending dwell timer.
C1_HighlightedKeepsDwellTimer ==
    (variant = "final" /\ mounted) =>
        \A i \in Cells : Phase(i) = "highlighted" => Pending(i, "dwell") # {}

\* C2 (final variant): every cell that enters Fading is eventually removed
\* unless it is re-triggered.  Only its own removal timer removes a cell, so
\* in every state of the mounted component each Fading cell has a pending
\* removal timer.
C2_FadingIsRemoved ==
    (variant = "final" /\ mounted) =>
        \A i \in Cells : Phase(i) = "fading" => Pending(i, "removal") # {}

\* C3 (final variant): a pointer-leave keeps a Fading cell Fading, cancels
\* its pending timer and schedules a new removal timer, so the cell has
\* exactly one pending timer after the event.
C3_LeaveReschedulesFading ==
    [][(MouseLeave /\ variant = "final") =>
          \A i \in Cells :
             Phase(i) = "fading" =>
                /\ i \in DOMAIN squaresState'
                /\ squaresState'[i].state = "fading"
                /\ Cardinality(TimersOf(timers', i)) = 1
                /\ \A t \in TimersOf(timers', i) : t.kind = "removal"]_vars

\* C4 (final variant): after teardown no dwell or removal timer is pending.
C4_NoTimerAfterTeardown ==
    (variant = "final" /\ ~mounted) => timers = {}

\* C4 witness: the teardown found pending timers and cancelled them.
C4_Witness ==
    /\ variant = "final" /\ ~mounted
    /\ last.op = "unmount" /\ last.swept # {}
    /\ DOMAIN squaresState # {}

\* C5 (all variants): every cell has at most one pending timer.
C5_AtMostOneTimerPerCell ==
    \A i \in Cells : Cardinality(TimersOf(timers, i)) <= 1

\* C5 witness: a pointer-move scheduled a timer for a cell whose previous
\* timer was still pending, and cancelled that one first.
C5_Witness ==
    /\ last.op = "move"
    /\ \E c \in last.cleared :
          c[1] \in last.sel /\ Cardinality(TimersOf(timers, c[1])) = 1

\* a pointer-move that selects cell i while it is Highlighted with its dwell
\* timer pending clears that timer and schedules a fresh one: after the move
\* the cell is Highlighted and its only pending timer is the dwell timer its
\* record names
RestartsDwell(i) ==
    (/\ last'.op = "move" /\ i \in last'.sel
     /\ Phase(i) = "highlighted" /\ Pending(i, "dwell") # {})
    => /\ <<i, "dwell">> \in last'.cleared
       /\ i \in DOMAIN squaresState'
       /\ squaresState'[i].state = "highlighted"
       /\ TimersOf(timers', i) =
            {[index |-> i, n |-> squaresState'[i].timeoutId, kind |-> "dwell"]}

\* a Highlighted cell leaves that phase only for Fading, and only when its
\* own pending dwell timer fires or the pointer leaves
FadesByTimerOrLeave(i) ==
    (/\ Phase(i) = "highlighted"
     /\ ~(i \in DOMAIN squaresState' /\ squaresState'[i].state = "highlighted"))
    => /\ i \in DOMAIN squaresState'
       /\ squaresState'[i].state = "fading"
       /\ \/ last'.op = "leave"
          \/ /\ last'.op = "dwell"
             /\ Pending(i, "dwell") # {}
             /\ {t \in timers' : t.index = i /\ t.kind = "dwell"} = {}

\* after a pointer-move has re-triggered cell i (its pending dwell timer was
\* cleared and a fresh one scheduled), the next step either makes the cell
\* Fading (the pointer leaves or the fresh timer fires), or unmounts the
\* component, or leaves the cell Highlighted with the fresh timer pending
FreshTimerStaysPending(i) ==
    (/\ last.op = "move" /\ i \in last.sel /\ <<i, "dwell">> \in last.cleared
     /\ mounted')
    => \/ /\ i \in DOMAIN squaresState'
          /\ squaresState'[i].state = "fading"
       \/ /\ i \in DOMAIN squaresState'
          /\ squaresState'[i].state = "highlighted"
          /\ {t \in timers' : t.index = i /\ t.kind = "dwell"} # {}

\* C6 (all variants): a pointer-move that selects a cell which is already
\* Highlighted cancels its pending dwell timer and schedules a fresh one; the
\* cell stays Highlighted until the fresh timer fires (or the pointer leaves),
\* so that exactly one Highlighted-to-Fading transition results.
C6_RetriggerYieldsOneTransition ==
    [][\A i \in Cells :
          RestartsDwell(i) /\ FadesByTimerOrLeave(i) /\ FreshTimerStaysPending(i)
      ]_vars

\* The part of C6 that the code keeps in every variant: the old timer is
\* cancelled, exactly one fresh dwell timer replaces it, and a Highlighted
\* cell only ever turns Fading, by its own dwell timer or a pointer-leave.
RetriggerCancelsAndRestarts ==
    [][\A i \in Cells : RestartsDwell(i) /\ FadesByTimerOrLeave(i)]_vars

\* C7 (all variants): a pointer-leave moves every Highlighted cell to Fading
\* in the same step, leaves none of their dwell timers pending, clears the
\* last-hovered reference, and neither adds nor removes a key.
C7_LeaveFadesHighlighted ==
    [][MouseLeave =>
          /\ DOMAIN squaresState' = DOMAIN squaresState
          /\ lastSquareRef' = Null
          /\ \A i \in DOMAIN squaresState :
                /\ squaresState'[i].state = "fading"
                /\ {t \in timers' : t.index = i /\ t.kind = "dwell"} = {}
      ]_vars

\* C7 witness: a pointer-leave found a Highlighted cell with its dwell timer
\* pending; the cell is Fading and the reference is cleared.
C7_Witness ==
    /\ last.op = "leave"
    /\ lastSquareRef = Null
    /\ \E i \in Cells : <<i, "dwell">> \in last.cleared /\ Phase(i) = "fading"
    /\ variant \in {"hover", "final"}

\* C8 (hover and final variant): a pointer-move whose cell index equals the
\* last-hovered reference changes neither the mapping, nor the pending
\* timers, nor the reference; any other pointer-move (one after a
\* pointer-leave cleared the reference, in particular) is processed and
\* records its cell.
C8_SameCellMoveIsNoOp ==
    [][\A p \in Pointers(horizontal, vertical) :
          (MouseMove(p[1], p[2]) /\ variant \in {"hover", "final"}) =>
             IF currentSquare(p[1], p[2], horizontal, vertical) = lastSquareRef
             THEN UNCHANGED <<squaresState, timers, lastSquareRef>>
             ELSE /\ lastSquareRef' =
                        currentSquare(p[1], p[2], horizontal, vertical)
                  /\ last'.op = "move"
      ]_vars

\* C8 witness: a pointer-move inside the cell of the reference was dropped
\* while timers were pending.
C8_Witness ==
    /\ last.op = "moveSame"
    /\ lastSquareRef # Null
    /\ timers # {}

\* the row and the column of the cell that holds pixel (x, y)
RowOf(y) == CHOOSE r \in 0..(vertical - 1) : r * Height <= y /\ y < (r + 1) * Height
ColOf(x) == CHOOSE c \in 0..(horizontal - 1) : c * Width <= x /\ x < (c + 1) * Width

Abs(a) == IF a < 0 THEN -a ELSE a

\* the in-bounds positions among the 8 Moore-adjacent ones of (row, col)
Moore(row, col) ==
    {m \in (0..(vertical - 1)) \X (0..(horizontal - 1)) :
        /\ Abs(m[1] - row) <= 1
        /\ Abs(m[2] - col) <= 1
        /\ m # <<row, col>>}

\* C9: getNeighbors returns exactly the indices newRow * horizontal + newCol
\* of the in-bounds Moore-adjacent positions, each once, and never the index
\* of the position itself.
C9_NeighborsAreMoore ==
    probe # NoProbe =>
        LET row == RowOf(probe.y)
            col == ColOf(probe.x)
            nb == probe.neighbors
        IN  /\ Range(nb) = {m[1] * horizontal + m[2] : m \in Moore(row, col)}
            /\ Len(nb) = Cardinality(Moore(row, col))
            /\ \A a, b \in 1..Len(nb) : a # b => nb[a] # nb[b]
            /\ (row * horizontal + col) \notin Range(nb)

\* C9 witness: the centre of a 3 x 3 grid, with all 8 neighbors.
C9_Witness ==
    /\ horizontal = 3 /\ vertical = 3
    /\ Len(probe.neighbors) = 8

\* C10: for every pixel inside the grid the handler's index is
\* row * horizontal + col of the cell that holds the pixel, lies in
\* [0, horizontal * vertical), and no pixel of another cell gets that index.
C10_IndexOfPointer ==
    probe # NoProbe =>
        /\ probe.index = RowOf(probe.y) * horizontal + ColOf(probe.x)
        /\ probe.index >= 0
        /\ probe.index < horizontal * vertical
        /\ \A x \in 0..(Width * horizontal - 1), y \in 0..(Height * vertical - 1) :
              currentSquare(x, y, horizontal, vertical) = probe.index
                 => RowOf(y) = RowOf(probe.y) /\ ColOf(x) = ColOf(probe.x)

\* C10 witness: the last pixel of the last cell of a 3 x 2 grid.
C10_Witness ==
    /\ horizontal = 3 /\ vertical = 2
    /\ probe.x = Width * horizontal - 1
    /\ probe.y = Height * vertical - 1
    /\ probe.index = horizontal * vertical - 1

\* the mounted final variant on a 2 x 1 grid
TwoByOne == variant = "final" /\ horizontal = 2 /\ vertical = 1 /\ mounted

\* C11 (final variant, squares = [2, 1], one pointer-move then no input): the
\* pointer-move to the centre of the first cell maps to index 0 and selects
\* exactly cell 1, which becomes Highlighted while cell 0 stays Idle; cell 1
\* then becomes Fading, and then is removed, which leaves the mapping empty
\* with no timer pending.
C11_EndToEnd ==
    /\ [][(TwoByOne /\ MouseMove(Width \div 2, Height \div 2)) =>
             /\ lastSquareRef' = 0
             /\ last'.sel = {1}
             /\ DOMAIN squaresState' = {1}
             /\ squaresState'[1].state = "highlighted"]_vars
    /\ ((TwoByOne /\ last.op = "move" /\ lastSquareRef = 0)
            ~> (TwoByOne /\ Phase(1) = "fading" /\ Phase(0) = "idle"))
    /\ ((TwoByOne /\ Phase(1) = "fading")
            ~> (TwoByOne /\ squaresState = << >> /\ timers = {}))

\* C11 witness: the removal timer of cell 1 fired and emptied the mapping.
C11_Witness ==
    /\ TwoByOne /\ lastSquareRef = 0
    /\ last.op = "removal"
    /\ DOMAIN squaresState = {} /\ timers = {}

\* a step that is a pointer-move or a pointer-leave handled by the component
PointerEvent == last'.op \in {"move", "moveSame", "leave"}

\* C12 (hover and final variant): once the breakpoint hook has run, the
\* narrow-viewport signal equals innerWidth < DefaultMaxWidth, and while the
\* viewport is narrower than the threshold a pointer-move or a pointer-leave
\* changes neither the mapping nor the last-hovered reference and schedules
\* or cancels no timer.
C12_NarrowViewportIsInert ==
    /\ [](listening => (isMobile = (innerWidth < DefaultMaxWidth)))
    /\ [][(/\ variant \in {"hover", "final"}
            /\ (variant = "hover" => listening)
            /\ innerWidth < DefaultMaxWidth
            /\ PointerEvent)
           => UNCHANGED <<squaresState, lastSquareRef, timers>>]_vars

\* The part of C12 that the code keeps: in the hover variant, once the hook's
\* effect has run, the signal follows the width and the handlers are detached
\* exactly while the viewport is narrow.
HoverGatesHandlers ==
    (variant = "hover" /\ listening) =>
        /\ isMobile = (innerWidth < DefaultMaxWidth)
        /\ HandlersAttached = ~(innerWidth < DefaultMaxWidth)

\* the indices of the in-bounds Moore-adjacent positions of cell c
MooreOf(c) ==
    {m[1] * horizontal + m[2] : m \in Moore(c \div horizontal, c % horizontal)}

\* the slice lengths the variants are said to draw
StatedCounts ==
    CASE variant = "final" -> 4..5
      [] variant = "hover" -> 2..7
      [] OTHER -> 0..2

\* C13 (all variants): a pointer-move that is processed, with the pointer in
\* cell c, sets to Highlighted a set of cells that is a subset of the Moore
\* neighbors of c of size min(k, number of neighbors) for a k of the
\* variant's range; c itself is not in that set, and every cell outside the
\* set keeps its phase.
C13_SelectionIsNeighborSubset ==
    [][\A p \in Pointers(horizontal, vertical) :
          LET c == currentSquare(p[1], p[2], horizontal, vertical)
          IN  (/\ last'.op = "move"
               /\ (HasRef(variant) => lastSquareRef' = c)
               /\ MouseMove(p[1], p[2]))
              => /\ last'.sel \subseteq MooreOf(c)
                 /\ \E k \in StatedCounts :
                       Cardinality(last'.sel) = Min(k, Cardinality(MooreOf(c)))
                 /\ c \notin last'.sel
                 /\ \A i \in last'.sel :
                       /\ i \in DOMAIN squaresState'
                       /\ squaresState'[i].state = "highlighted"
                 /\ \A i \in Cells \ last'.sel :
                       /\ (i \in DOMAIN squaresState') = (i \in DOMAIN squaresState)
                       /\ i \in DOMAIN squaresState =>
                             squaresState'[i].state = squaresState[i].state
      ]_vars

\* C13 witness: the final variant's pointer is in the centre cell of a 3 x 3
\* grid and 5 of its 8 neighbors were selected.
C13_Witness ==
    /\ variant = "final" /\ horizontal = 3 /\ vertical = 3
    /\ last.op = "move" /\ lastSquareRef = 4
    /\ Cardinality(last.sel) = 5
    /\ \A i \in last.sel : Phase(i) = "highlighted"

\* C14 (earliest and hover variant): no step removes a key of the mapping,
\* and a Fading cell stays Fading unless a pointer-move selects it, which
\* makes it Highlighted.
C14_SimpleVariantsNeverRemove ==
    [][(variant \in {"earliest", "hover"}) =>
          /\ DOMAIN squaresState \subseteq DOMAIN squaresState'
          /\ \A i \in DOMAIN squaresState :
                squaresState[i].state = "fading" =>
                   \/ squaresState'[i].state = "fading"
                   \/ /\ squaresState'[i].state = "highlighted"
                      /\ last'.op = "move"
                      /\ i \in last'.sel
      ]_vars

\* C14 witness: a pointer-move of a simple variant selected some cells while
\* another cell, Fading with no timer pending, stayed in the mapping.
C14_Witness ==
    /\ variant \in {"earliest", "hover"}
    /\ last.op = "move" /\ last.sel # {}
    /\ \E i \in Cells \ last.sel :
          Phase(i) = "fading" /\ TimersOf(timers, i) = {}

\* the mapping and the pending timers after the pending timer t has fired in
\* the mounted component with mapping sq and pending timers tm
AfterFire(sq, tm, t) == Committed(sq, TimerUpdate(sq, tm, t))

\* the phase of every cell of a mapping
PhasesOf(sq) ==
    [i \in Cells |-> IF i \in DOMAIN sq THEN sq[i].state ELSE "idle"]

\* the pending timer t of one cell and the pending timer u of another can
\* fire in either order, with the same phases and the same pending timers
\* (cell and kind) as the result
Commute(t, u) ==
    LET a == AfterFire(squaresState, timers, t)
        b == AfterFire(squaresState, timers, u)
    IN  /\ u \in a.timers
        /\ t \in b.timers
        /\ LET ab == AfterFire(a.sq, a.timers, u)
               ba == AfterFire(b.sq, b.timers, t)
           IN  /\ PhasesOf(ab.sq) = PhasesOf(ba.sq)
               /\ {<<x.index, x.kind>> : x \in ab.timers}
                    = {<<x.index, x.kind>> : x \in ba.timers}

\* C15 (all variants): in every state of the mounted component in which two
\* distinct cells each have a pending timer, the two timers can fire in
\* either order and both orders end with the same phase for every cell and
\* the same pending timers.
C15_TimerFiringsCommute ==
    mounted =>
        \A t, u \in timers : t.index # u.index => Commute(t, u)

\* The part of C15 that the code keeps: the timer firings of the earliest and
\* the hover variant commute.
SimpleTimerFiringsCommute ==
    (mounted /\ variant \in {"earliest", "hover"}) =>
        \A t, u \in timers : t.index # u.index => Commute(t, u)

\* C16 (final variant): a pointer-move cancels only timers of the cells it
\* selects, and a timer firing cancels no timer: every other pending timer is
\* still pending after the update and the re-render it causes.
C16_UpdateKeepsOtherTimers ==
    [][(variant = "final" /\ mounted) =>
          /\ last'.op = "move" =>
                \A t \in timers : t.index \notin last'.sel => t \in timers'
          /\ \A f \in timers :
                TimerFire(f) => \A t \in timers \ {f} : t \in timers'
      ]_vars

\* The part of C16 that the code keeps: the clearTimeout calls of the
\* updaters themselves cancel only timers of the cells the update selects.
UpdaterCancelsOnlySelected ==
    [][(variant = "final" /\ last'.op \in {"move", "dwell", "removal"}) =>
          \A c \in last'.cleared : c[1] \in last'.sel]_vars

\* C17 (final variant): a key leaves the mapping only when its cell is
\* Fading and its pending removal timer fires; a Highlighted cell has no
\* removal timer pending, because the pointer-move that selects a Fading cell
\* cancels the removal timer scheduled before; and a dwell-timer firing
\* changes the phase of no cell that is not Highlighted.
C17_RemovalOnlyFromFading ==
    [][variant = "final" =>
          /\ \A i \in DOMAIN squaresState \ DOMAIN squaresState' :
                /\ squaresState[i].state = "fading"
                /\ last'.op = "removal"
                /\ Pending(i, "removal") # {}
                /\ TimersOf(timers', i) = {}
          /\ \A i \in DOMAIN squaresState :
                squaresState[i].state = "highlighted" => Pending(i, "removal") = {}
          /\ \A i \in DOMAIN squaresState :
                (/\ last'.op = "move" /\ i \in last'.sel
                 /\ squaresState[i].state = "fading")
                => /\ i \in DOMAIN squaresState'
                   /\ squaresState'[i].state = "highlighted"
                   /\ {t \in timers' : t.index = i /\ t.kind = "removal"} = {}
          /\ \A i \in DOMAIN squaresState :
                (last'.op = "dwell" /\ squaresState[i].state # "highlighted")
                => /\ i \in DOMAIN squaresState'
                   /\ squaresState'[i].state = squaresState[i].state
      ]_vars

\* C17 witness: a pointer-move selected a Fading cell whose removal timer was
\* pending; the timer was cancelled and the cell is Highlighted with its
\* dwell timer as its only pending timer.
C17_Witness ==
    /\ variant = "final" /\ last.op = "move"
    /\ \E i \in last.sel :
          /\ <<i, "removal">> \in last.cleared
          /\ Phase(i) = "highlighted"
          /\ Pending(i, "removal") = {}
          /\ Pending(i, "dwell") # {}

\* C18 (all variants, pointer inside the grid): every key of the mapping is
\* a cell index in [0, horizontal * vertical) and its phase is Highlighted
\* or Fading.
C18_KeysAreCellsWithPhase ==
    \A i \in DOMAIN squaresState :
        /\ i >= 0 /\ i < horizontal * vertical
        /\ squaresState[i].state \in {"highlighted", "fading"}

\* C18 witness: on a 2 x 3 grid the first and the last cell are in the
\* mapping, one Fading and one Highlighted.
C18_Witness ==
    /\ horizontal = 2 /\ vertical = 3
    /\ Phase(0) = "fading"
    /\ Phase(horizontal * vertical - 1) = "highlighted"

\* pixel (x, y) lies inside the rectangle drawn for index i
InRect(x, y, i) ==
    /\ rectX(i, horizontal) <= x
    /\ x < rectX(i, horizontal) + Width
    /\ rectY(i, horizontal, vertical) <= y
    /\ y < rectY(i, horizontal, vertical) + Height

\* C19: the rectangle drawn for the cell in row r and column c, whose index
\* is r * horizontal + c, has its top-left corner at (c * Width, r * Height),
\* and the pointer-move handler maps every pixel inside the rectangle of
\* index i back to i.
C19_RenderAgreesWithPointer ==
    /\ \A r \in 0..(vertical - 1), c \in 0..(horizontal - 1) :
          /\ rectX(r * horizontal + c, horizontal) = c * Width
          /\ rectY(r * horizontal + c, horizontal, vertical) = r * Height
    /\ probe # NoProbe =>
          /\ \E i \in Cells : InRect(probe.x, probe.y, i)
          /\ \A i \in Cells : InRect(probe.x, probe.y, i) => probe.index = i

\* C19 witness: the last pixel of the rectangle drawn for the last index of
\* a 2 x 3 grid.
C19_Witness ==
    /\ horizontal = 2 /\ vertical = 3
    /\ probe # NoProbe
    /\ probe.index = 5
    /\ probe.x = rectX(5, horizontal) + Width - 1
    /\ probe.y = rectY(5, horizontal, vertical) + Height - 1

====
